---------------------------- MODULE Spec2Model ----------------------------
(***************************************************************************)
(* Model of src/app.py: a Streamlit page that searches the NEIS school     *)
(* directory and looks up a school's meal menu.                            *)
(*                                                                         *)
(* Streamlit re-executes the whole script for every user interaction.  A   *)
(* script run that reaches requests.get is modelled in two steps: the      *)
(* press (everything up to the blocking call) and the resolve (the         *)
(* response arrives and the rest of the script runs).  A run that makes no *)
(* HTTP call is one step.                                                  *)
(***************************************************************************)
EXTENDS Integers, Sequences, FiniteSets, TLC

(***************************************************************************)
(* Bounds of the model.                                                    *)
(***************************************************************************)
\* longest "row" array an upstream school response carries in the model
MaxRows == 2
\* the history counter of stored search results saturates here
MaxStores == 2

(***************************************************************************)
(* Values.                                                                 *)
(***************************************************************************)
\* Python's None for a string-valued name
NoneVal == "<None>"

\* truthiness of an optional string: None and "" are falsy
Truthy(v) == v # NoneVal /\ v # ""

SCHOOL_INFO_URL == "https://open.neis.go.kr/hub/schoolInfo"
MEAL_INFO_URL == "https://open.neis.go.kr/hub/mealServiceDietInfo"

\* values the NEIS_API_KEY entry of os.environ / of the .env file can have
KeyValues == {NoneVal, "", "K1"}

\* values typed into the two text inputs, and the school-type options (the
\* empty option and one of the four school types of the selectbox)
NameInputs == {"", "A b"}
SchoolTypeOptions == {"", "elementary"}
RegionInputs == {"", "Seoul"}

\* upstream school rows; two of them share a name, one has an empty name
SchoolRecords ==
  { [SCHUL_NM |-> "A", ATPT_OFCDC_SC_CODE |-> "B10", SD_SCHUL_CODE |-> "7010001"],
    [SCHUL_NM |-> "A", ATPT_OFCDC_SC_CODE |-> "C10", SD_SCHUL_CODE |-> "7150002"],
    [SCHUL_NM |-> "",  ATPT_OFCDC_SC_CODE |-> "D10", SD_SCHUL_CODE |-> "7240003"] }

\* upstream meal rows; DDISH_NM is the menu text cut at the break markers
MealRecords ==
  { [MLSV_YMD |-> "20241231", DDISH_NM |-> <<"Rice", "<br/>", "Soup", "<br/>", "Kimchi">>] }

\* the calendar days the clock passes through
Days == << [y |-> 2024, m |-> 12, d |-> 31], [y |-> 2025, m |-> 1, d |-> 1] >>

SeqsUpTo(S, n) == UNION { [1..k -> S] : k \in 0..n }

(***************************************************************************)
(* Upstream responses.                                                     *)
(***************************************************************************)
\* JSON bodies: the top-level key absent, its array empty or one element
\* long, its second element without "row", or with a "row" array
Payloads(top, rowSeqs) ==
  { [RESULT |-> "INFO-200"] } \cup
  { (top :> <<>>), (top :> << [head |-> "h"] >>),
    (top :> << [head |-> "h"], [head |-> "h"] >>) } \cup
  { (top :> << [head |-> "h"], [row |-> rows] >>) : rows \in rowSeqs }

NoData == [RESULT |-> "none"]

Responses(top, rowSeqs) ==
  { [kind |-> k, data |-> NoData] : k \in {"conn_error", "http_error", "bad_json"} } \cup
  { [kind |-> "ok", data |-> d] : d \in Payloads(top, rowSeqs) }

SchoolResponses == Responses("schoolInfo", SeqsUpTo(SchoolRecords, MaxRows))
MealResponses == Responses("mealServiceDietInfo", SeqsUpTo(MealRecords, 1))

NoResponse == [kind |-> "none", data |-> NoData]

VARIABLES
  environ,        \* os.environ's NEIS_API_KEY entry
  dotenv,         \* the .env file's NEIS_API_KEY entry
  school_name,    \* value of the school-name text input
  school_type,    \* value of the school-type selectbox
  region,         \* value of the region text input
  session_state,  \* st.session_state: a set of <<key, value>> pairs
  selIdx,         \* position chosen in the school selectbox of tab2 (0: none)
  datePick,       \* date chosen in the date input: index into Days (0: default)
  today,          \* the clock: index into Days
  pc,             \* "idle", "school_wait" or "meal_wait"
  outstanding,    \* HTTP requests sent and not yet resolved
  response,       \* the response the current run received
  button,         \* the button the current run handles
  calls,          \* HTTP calls the current run has issued
  shown,          \* messages the current run displays
  rendered,       \* meal menus the current run displays
  stored_count    \* history: search results stored so far (saturating)

vars == << environ, dotenv, school_name, school_type, region, session_state,
           selIdx, datePick, today, pc, outstanding, response, button, calls,
           shown, rendered, stored_count >>


(***************************************************************************)
(* Startup lines of the script, executed by every run.                     *)
(***************************************************************************)
\* load_dotenv(): copies the file's entry into os.environ unless one is set
load_dotenv(env, file) == IF env = NoneVal THEN file ELSE env

\* NEIS_API_KEY = os.getenv('NEIS_API_KEY')
NEIS_API_KEY(env) == env

(***************************************************************************)
(* st.session_state as a dictionary.                                       *)
(***************************************************************************)
Has(ss, k) == \E p \in ss : p[1] = k
Get(ss, k) == (CHOOSE p \in ss : p[1] = k)[2]
Put(ss, k, v) == { p \in ss : p[1] # k } \cup { <<k, v>> }

(***************************************************************************)
(* fetch_school_info                                                       *)
(***************************************************************************)
\* variant: the name filter is sent even when it is empty
fetch_school_info_params_always_name(key, name, type, reg) ==
  LET base == [KEY |-> key, Type |-> "json", pIndex |-> 1, pSize |-> 100]
      p1 == ("SCHUL_NM" :> name) @@ base
      p2 == IF Truthy(type) THEN ("SCHUL_KND_SC_NM" :> type) @@ p1 ELSE p1
      p3 == IF Truthy(reg) THEN ("LCTN_SC_NM" :> reg) @@ p2 ELSE p2
  IN p3

\* the query parameters of the school-directory request
fetch_school_info_params(key, name, type, reg) ==
  LET base == [KEY |-> key, Type |-> "json", pIndex |-> 1, pSize |-> 100]
      p1 == IF Truthy(name) THEN ("SCHUL_NM" :> name) @@ base ELSE base
      p2 == IF Truthy(type) THEN ("SCHUL_KND_SC_NM" :> type) @@ p1 ELSE p1
      p3 == IF Truthy(reg) THEN ("LCTN_SC_NM" :> reg) @@ p2 ELSE p2
  IN p3

\* what the try block returns for a response: error is TRUE when the except
\* branch ran (st.error is called), df is the returned frame's rows
fetch_school_info_result(resp) ==
  IF resp.kind \in {"conn_error", "http_error", "bad_json"}
  THEN [error |-> TRUE, df |-> <<>>]
  ELSE LET data == resp.data IN
       IF "schoolInfo" \in DOMAIN data
       THEN IF Len(data["schoolInfo"]) < 2
            THEN [error |-> TRUE, df |-> <<>>]          \* IndexError on [1]
            ELSE IF "row" \in DOMAIN data["schoolInfo"][2]
                 THEN [error |-> FALSE, df |-> data["schoolInfo"][2]["row"]]
                 ELSE [error |-> FALSE, df |-> <<>>]
       ELSE [error |-> FALSE, df |-> <<>>]

(***************************************************************************)
(* fetch_meal_info                                                         *)
(***************************************************************************)
Digits2(n) == << n \div 10, n % 10 >>
Digits4(n) == << n \div 1000, (n \div 100) % 10, (n \div 10) % 10, n % 10 >>

\* date.strftime("%Y%m%d"): eight decimal digits
strftime(date) == Digits4(date.y) \o Digits2(date.m) \o Digits2(date.d)

\* the date argument left at None
NoDate == << >>

\* the query parameters of the meal-menu request
fetch_meal_info_params(key, atpt_ofcdc_sc_code, sd_schul_code, date, now) ==
  LET d == IF date = NoDate THEN strftime(now) ELSE date
  IN [KEY |-> key, Type |-> "json",
      ATPT_OFCDC_SC_CODE |-> atpt_ofcdc_sc_code,
      SD_SCHUL_CODE |-> sd_schul_code,
      MLSV_YMD |-> d]

fetch_meal_info_result(resp) ==
  IF resp.kind \in {"conn_error", "http_error", "bad_json"}
  THEN [error |-> TRUE, df |-> <<>>]
  ELSE LET data == resp.data IN
       IF "mealServiceDietInfo" \in DOMAIN data
       THEN IF Len(data["mealServiceDietInfo"]) < 2
            THEN [error |-> TRUE, df |-> <<>>]          \* IndexError on [1]
            ELSE IF "row" \in DOMAIN data["mealServiceDietInfo"][2]
                 THEN [error |-> FALSE, df |-> data["mealServiceDietInfo"][2]["row"]]
                 ELSE [error |-> FALSE, df |-> <<>>]
       ELSE [error |-> FALSE, df |-> <<>>]

(***************************************************************************)
(* The page.                                                               *)
(***************************************************************************)
\* variant: a run starts while an earlier one still waits for its response
UIReady_always == TRUE

\* the script thread is free to start a run: requests.get blocks it
UIReady == pc = "idle"

\* variant: only a key that is None counts as missing
KeyMissing_only_none(key) == key = NoneVal

\* if not NEIS_API_KEY
KeyMissing(key) == ~Truthy(key)

\* variant: the frame is stored whether or not it is empty
StoreResult_always(ss, df) == Put(ss, "schools_df", df)

\* variant: only the first result is stored
StoreResult_keep_first(ss, df) ==
  IF df # <<>> /\ ~Has(ss, "schools_df") THEN Put(ss, "schools_df", df) ELSE ss

\* variant: an empty frame removes the stored one
StoreResult_clear(ss, df) ==
  IF df # <<>> THEN Put(ss, "schools_df", df) ELSE { p \in ss : p[1] # "schools_df" }

\* if not df.empty: st.session_state.schools_df = df
StoreResult(ss, df) == IF df # <<>> THEN Put(ss, "schools_df", df) ELSE ss

\* 'schools_df' in st.session_state and not st.session_state.schools_df.empty
MealSectionReachable(ss) == Has(ss, "schools_df") /\ Get(ss, "schools_df") # <<>>

\* st.session_state.schools_df['SCHUL_NM'].tolist()
SchoolOptions(ss) == [i \in 1..Len(Get(ss, "schools_df")) |-> Get(ss, "schools_df")[i].SCHUL_NM]

\* variant: the selection is not tested
SchoolSelected_any(selected_school) == TRUE

\* if selected_school
SchoolSelected(selected_school) == selected_school # ""

\* schools_df[schools_df['SCHUL_NM'] == selected_school].iloc[0]
selected_school_info(df, selected_school) ==
  df[CHOOSE i \in 1..Len(df) :
       /\ df[i].SCHUL_NM = selected_school
       /\ \A j \in 1..(i-1) : df[j].SCHUL_NM # selected_school]

\* variant: the two codes are handed over in the wrong order
MealCodes_swapped(info) == << info.SD_SCHUL_CODE, info.ATPT_OFCDC_SC_CODE >>

\* the two codes handed to fetch_meal_info
MealCodes(info) == << info.ATPT_OFCDC_SC_CODE, info.SD_SCHUL_CODE >>

\* meal['DDISH_NM'].replace("<br/>", "\n")
ReplaceBr(text) == [i \in 1..Len(text) |-> IF text[i] = "<br/>" THEN "\n" ELSE text[i]]

\* what tab2 shows when no button of it is pressed
Tab2Messages(ss) == IF MealSectionReachable(ss) THEN {} ELSE {"search_first"}

\* the meal button is drawn: the section is reachable and a school selected
MealButtonReachable ==
  /\ MealSectionReachable(session_state)
  /\ selIdx \in 1..Len(Get(session_state, "schools_df"))
  /\ SchoolSelected(SchoolOptions(session_state)[selIdx])

Min(a, b) == IF a < b THEN a ELSE b


(***************************************************************************)
(* Initial state: the session's first script run has drawn the page.       *)
(***************************************************************************)
Init ==
  /\ dotenv \in KeyValues
  /\ \E env \in KeyValues : environ = load_dotenv(env, dotenv)
  /\ school_name = "" /\ school_type = "" /\ region = ""
  /\ session_state = {}
  /\ selIdx = 0
  /\ datePick = 0
  /\ today = 1
  /\ pc = "idle"
  /\ outstanding = << >>
  /\ response = NoResponse
  /\ button = "none"
  /\ calls = 0
  /\ shown = Tab2Messages({})
  /\ rendered = << >>
  /\ stored_count = 0

\* the selectbox positions a run can return once the stored frame is ssNew:
\* the widget keeps its position while its options are the same
SelectboxPositions(ssOld, ssNew, idx) ==
  IF ssNew = ssOld THEN {idx}
  ELSE IF MealSectionReachable(ssNew) THEN 1..Len(Get(ssNew, "schools_df"))
  ELSE {0}

(***************************************************************************)
(* The school search button (tab1).                                        *)
(***************************************************************************)
\* the run started by pressing "school_search_button", up to requests.get
PressSchoolSearch(name, type, reg) ==
  /\ UIReady
  /\ school_name' = name /\ school_type' = type /\ region' = reg
  /\ environ' = load_dotenv(environ, dotenv)
  /\ button' = "school"
  /\ response' = NoResponse
  /\ rendered' = << >>
  /\ IF KeyMissing(NEIS_API_KEY(environ'))
     THEN /\ shown' = {"set_api_key"} \cup Tab2Messages(session_state)
          /\ calls' = 0
          /\ pc' = "idle"
          /\ outstanding' = outstanding
     ELSE /\ shown' = {"spinner"}
          /\ calls' = 1
          /\ pc' = "school_wait"
          /\ outstanding' = Append(outstanding,
               [url |-> SCHOOL_INFO_URL,
                params |-> fetch_school_info_params(NEIS_API_KEY(environ'), name, type, reg)])
  /\ UNCHANGED << dotenv, session_state, selIdx, datePick, today, stored_count >>

\* requests.get returns or raises; the rest of the run
ResolveSchoolSearch(resp) ==
  /\ pc = "school_wait"
  /\ outstanding # << >>
  /\ outstanding' = Tail(outstanding)
  /\ response' = resp
  /\ LET res == fetch_school_info_result(resp)
         df == res.df
     IN /\ session_state' = StoreResult(session_state, df)
        /\ shown' = (IF res.error THEN {"fetch_error"} ELSE {})
                      \cup (IF df # <<>> THEN {"schools_found"} ELSE {"no_schools"})
                      \cup Tab2Messages(session_state')
        /\ stored_count' = IF df # <<>> THEN Min(stored_count + 1, MaxStores)
                           ELSE stored_count
  /\ selIdx' \in SelectboxPositions(session_state, session_state', selIdx)
  /\ pc' = "idle"
  /\ UNCHANGED << environ, dotenv, school_name, school_type, region, datePick,
                  today, button, calls, rendered >>

(***************************************************************************)
(* The meal section (tab2).                                                *)
(***************************************************************************)
\* the user picks another entry of the school selectbox: a run, no button
SelectSchool(i) ==
  /\ UIReady
  /\ MealSectionReachable(session_state)
  /\ i \in 1..Len(Get(session_state, "schools_df"))
  /\ i # selIdx
  /\ selIdx' = i
  /\ environ' = load_dotenv(environ, dotenv)
  /\ button' = "none" /\ calls' = 0 /\ response' = NoResponse /\ rendered' = << >>
  /\ shown' = Tab2Messages(session_state)
  /\ UNCHANGED << dotenv, school_name, school_type, region, session_state,
                  datePick, today, pc, outstanding, stored_count >>

\* the user picks a date in the date input: a run, no button
PickDate(d) ==
  /\ UIReady
  /\ MealButtonReachable
  /\ d \in 1..Len(Days)
  /\ d # datePick
  /\ datePick' = d
  /\ environ' = load_dotenv(environ, dotenv)
  /\ button' = "none" /\ calls' = 0 /\ response' = NoResponse /\ rendered' = << >>
  /\ shown' = Tab2Messages(session_state)
  /\ UNCHANGED << dotenv, school_name, school_type, region, session_state,
                  selIdx, today, pc, outstanding, stored_count >>

\* the run started by pressing "meal_search_button", up to requests.get
PressMealSearch ==
  /\ UIReady
  /\ MealButtonReachable
  /\ environ' = load_dotenv(environ, dotenv)
  /\ LET df == Get(session_state, "schools_df")
         selected_school == SchoolOptions(session_state)[selIdx]
         info == selected_school_info(df, selected_school)
         meal_date == IF datePick = 0 THEN Days[today] ELSE Days[datePick]
         codes == MealCodes(info)
     IN outstanding' = Append(outstanding,
          [url |-> MEAL_INFO_URL,
           params |-> fetch_meal_info_params(NEIS_API_KEY(environ'), codes[1], codes[2],
                                             strftime(meal_date), Days[today])])
  /\ button' = "meal"
  /\ calls' = 1
  /\ response' = NoResponse
  /\ rendered' = << >>
  /\ shown' = {"spinner"}
  /\ pc' = "meal_wait"
  /\ UNCHANGED << dotenv, school_name, school_type, region, session_state,
                  selIdx, datePick, today, stored_count >>

\* requests.get returns or raises; the rest of the run
ResolveMealSearch(resp) ==
  /\ pc = "meal_wait"
  /\ outstanding # << >>
  /\ outstanding' = Tail(outstanding)
  /\ response' = resp
  /\ LET res == fetch_meal_info_result(resp)
         meal_df == res.df
     IN /\ shown' = (IF res.error THEN {"fetch_error"} ELSE {})
                      \cup (IF meal_df # <<>> THEN {"meal_found"} ELSE {"no_meal"})
        /\ rendered' = [i \in 1..Len(meal_df) |->
                          [subheader |-> meal_df[i].MLSV_YMD,
                           text |-> ReplaceBr(meal_df[i].DDISH_NM)]]
  /\ pc' = "idle"
  /\ UNCHANGED << environ, dotenv, school_name, school_type, region,
                  session_state, selIdx, datePick, today, button, calls,
                  stored_count >>

(***************************************************************************)
(* The environment.                                                        *)
(***************************************************************************)
\* the operator edits the NEIS_API_KEY line of the .env file
EditDotenv(v) ==
  /\ v # dotenv
  /\ dotenv' = v
  /\ UNCHANGED << environ, school_name, school_type, region, session_state,
                  selIdx, datePick, today, pc, outstanding, response, button,
                  calls, shown, rendered, stored_count >>

\* midnight passes while the page is idle
Tick ==
  /\ pc = "idle"
  /\ today < Len(Days)
  /\ today' = today + 1
  /\ UNCHANGED << environ, dotenv, school_name, school_type, region,
                  session_state, selIdx, datePick, pc, outstanding, response,
                  button, calls, shown, rendered, stored_count >>

Next ==
  \/ \E name \in NameInputs, type \in SchoolTypeOptions, reg \in RegionInputs :
        PressSchoolSearch(name, type, reg)
  \/ \E resp \in SchoolResponses : ResolveSchoolSearch(resp)
  \/ \E i \in 1..(MaxRows + 1) : SelectSchool(i)
  \/ \E d \in 1..Len(Days) : PickDate(d)
  \/ PressMealSearch
  \/ \E resp \in MealResponses : ResolveMealSearch(resp)
  \/ \E v \in KeyValues : EditDotenv(v)
  \/ Tick

Spec == Init /\ [][Next]_vars

TypeOK ==
  /\ environ \in KeyValues /\ dotenv \in KeyValues
  /\ school_name \in NameInputs /\ school_type \in SchoolTypeOptions
  /\ region \in RegionInputs
  /\ pc \in {"idle", "school_wait", "meal_wait"}
  /\ button \in {"none", "school", "meal"}
  /\ calls \in 0..1
  /\ today \in 1..Len(Days) /\ datePick \in 0..Len(Days)
  /\ stored_count \in 0..MaxStores


(***************************************************************************)
(* Properties.                                                             *)
(***************************************************************************)
\* the stored school collection, empty when none is stored
StoredRows ==
  IF Has(session_state, "schools_df") THEN Get(session_state, "schools_df") ELSE << >>

MealRequests == { k \in 1..Len(outstanding) : outstanding[k].url = MEAL_INFO_URL }
SchoolRequests == { k \in 1..Len(outstanding) : outstanding[k].url = SCHOOL_INFO_URL }

TransportFailures == {"conn_error", "http_error", "bad_json"}

\* C1: a meal query is outstanding only when a non-empty school collection
\* has been stored (so never before the first non-empty result), a row with
\* a name is selected in it, and the office code and school code sent are
\* the non-empty codes of one stored record.
C1_MealQueryNeedsStoredSelection ==
  \A k \in MealRequests :
    /\ stored_count >= 1
    /\ Has(session_state, "schools_df")
    /\ StoredRows # << >>
    /\ selIdx \in 1..Len(StoredRows)
    /\ StoredRows[selIdx].SCHUL_NM # ""
    /\ \E i \in 1..Len(StoredRows) :
         /\ outstanding[k].params.ATPT_OFCDC_SC_CODE = StoredRows[i].ATPT_OFCDC_SC_CODE
         /\ outstanding[k].params.SD_SCHUL_CODE = StoredRows[i].SD_SCHUL_CODE
         /\ StoredRows[i].ATPT_OFCDC_SC_CODE # ""
         /\ StoredRows[i].SD_SCHUL_CODE # ""

C1_Witness ==
  /\ pc = "meal_wait"
  /\ MealRequests # {}
  /\ Len(StoredRows) = 2
  /\ selIdx = 2

\* C2: when a school or meal lookup fails (connection failure, error status
\* or unparseable body) the run shows the fetch error, the stored school
\* collection is exactly what it was, and the page is idle again with no
\* request left outstanding.
C2_FailedLookupKeepsState ==
  [][ (pc # "idle" /\ response'.kind \in TransportFailures)
        => /\ session_state' = session_state
           /\ "fetch_error" \in shown'
           /\ pc' = "idle"
           /\ outstanding' = << >> ]_vars

C2_Witness ==
  /\ pc = "idle"
  /\ button = "school"
  /\ response.kind = "conn_error"
  /\ "fetch_error" \in shown
  /\ StoredRows # << >>

\* C3 as stated: after every school search that succeeded, the stored
\* collection equals that search's rows, also when there are none, and then
\* the meal section is not reachable.
C3_Original ==
  (pc = "idle" /\ button = "school" /\ response.kind = "ok"
     /\ ~fetch_school_info_result(response).error)
    => /\ StoredRows = fetch_school_info_result(response).df
       /\ (fetch_school_info_result(response).df = << >>
             => ~MealSectionReachable(session_state))

\* C3 amended: a school search that succeeded with at least one row replaces
\* the stored collection with its rows; one that succeeded with no row
\* leaves the stored collection (and the reachability of the meal section)
\* as it was.
C3_NonEmptyResultReplaces ==
  [][ (pc = "school_wait" /\ pc' = "idle" /\ response'.kind = "ok"
         /\ ~fetch_school_info_result(response').error)
        => IF fetch_school_info_result(response').df # << >>
           THEN /\ Has(session_state', "schools_df")
                /\ Get(session_state', "schools_df") = fetch_school_info_result(response').df
           ELSE session_state' = session_state ]_vars

C3_Witness ==
  /\ pc = "idle"
  /\ button = "school"
  /\ response.kind = "ok"
  /\ ~fetch_school_info_result(response).error
  /\ fetch_school_info_result(response).df = << >>
  /\ MealSectionReachable(session_state)
  /\ stored_count >= 2

\* C4: the office code and school code a meal query sends are those of one
\* record of the collection stored when the meal button is pressed, however
\* many results were stored before.
C4_NoStaleIdentifiers ==
  [][ (pc = "idle" /\ pc' = "meal_wait")
        => \E i \in 1..Len(StoredRows) :
             /\ outstanding'[Len(outstanding')].params.ATPT_OFCDC_SC_CODE
                  = StoredRows[i].ATPT_OFCDC_SC_CODE
             /\ outstanding'[Len(outstanding')].params.SD_SCHUL_CODE
                  = StoredRows[i].SD_SCHUL_CODE ]_vars

C4_Witness ==
  /\ pc = "meal_wait"
  /\ stored_count >= 2
  /\ \E k \in MealRequests : outstanding[k].params.ATPT_OFCDC_SC_CODE = "C10"

\* C5 as stated: with record i selected and the date left at its default,
\* the meal query carries record i's office code, record i's school code and
\* today's date as YYYYMMDD.
C5_Claim ==
  (pc = "meal_wait" /\ datePick = 0)
    => \A k \in MealRequests :
         /\ outstanding[k].params.ATPT_OFCDC_SC_CODE = StoredRows[selIdx].ATPT_OFCDC_SC_CODE
         /\ outstanding[k].params.SD_SCHUL_CODE = StoredRows[selIdx].SD_SCHUL_CODE
         /\ outstanding[k].params.MLSV_YMD = strftime(Days[today])

\* C6: no request is ever sent with a missing API key: while the key is
\* missing nothing is outstanding, and a button run that found it missing
\* made no call and shows the configuration error.
C6_NoCallWithoutKey ==
  /\ \A k \in 1..Len(outstanding) :
       outstanding[k].params.KEY # NoneVal /\ outstanding[k].params.KEY # ""
  /\ (environ = NoneVal \/ environ = "")
       => /\ outstanding = << >>
          /\ calls = 0
          /\ (button # "none" => "set_api_key" \in shown)

C6_Witness ==
  /\ button = "school"
  /\ environ = ""
  /\ calls = 0
  /\ "set_api_key" \in shown

\* C7: the school request carries SCHUL_NM, SCHUL_KND_SC_NM, LCTN_SC_NM
\* exactly for the filter fields that are filled in, each with the value
\* entered, and always pIndex = 1 and pSize = 100.
C7_OptionalParamsFollowFilter ==
  \A k \in SchoolRequests :
    pc = "school_wait" =>
      LET p == outstanding[k].params IN
      /\ ("SCHUL_NM" \in DOMAIN p) <=> (school_name # "")
      /\ ("SCHUL_KND_SC_NM" \in DOMAIN p) <=> (school_type # "")
      /\ ("LCTN_SC_NM" \in DOMAIN p) <=> (region # "")
      /\ ("SCHUL_NM" \in DOMAIN p) => p["SCHUL_NM"] = school_name
      /\ ("SCHUL_KND_SC_NM" \in DOMAIN p) => p["SCHUL_KND_SC_NM"] = school_type
      /\ ("LCTN_SC_NM" \in DOMAIN p) => p["LCTN_SC_NM"] = region
      /\ p["pIndex"] = 1
      /\ p["pSize"] = 100
      /\ DOMAIN p \subseteq {"KEY", "Type", "pIndex", "pSize",
                             "SCHUL_NM", "SCHUL_KND_SC_NM", "LCTN_SC_NM"}

C7_Witness ==
  /\ pc = "school_wait"
  /\ school_name = "A b" /\ school_type = "" /\ region = "Seoul"
  /\ \E k \in SchoolRequests :
       DOMAIN outstanding[k].params
         = {"KEY", "Type", "pIndex", "pSize", "SCHUL_NM", "LCTN_SC_NM"}

\* the nested row collection is missing from a JSON body
RowsMissing(data, top) ==
  \/ top \notin DOMAIN data
  \/ Len(data[top]) < 2
  \/ "row" \notin DOMAIN data[top][2]

\* C8 as stated: a received response whose nested row collection is missing
\* (key absent, array too short, or no row array in the second element)
\* gives the "no results" message and no error, for both lookups.
C8_Claim ==
  /\ (pc = "idle" /\ button = "school" /\ response.kind = "ok"
        /\ RowsMissing(response.data, "schoolInfo"))
       => ("fetch_error" \notin shown /\ "no_schools" \in shown)
  /\ (pc = "idle" /\ button = "meal" /\ response.kind = "ok"
        /\ RowsMissing(response.data, "mealServiceDietInfo"))
       => ("fetch_error" \notin shown /\ "no_meal" \in shown)

\* C9 as stated: every button run issues exactly one HTTP call, and at most
\* one request is outstanding at any time.
C9_Original ==
  /\ Len(outstanding) <= 1
  /\ button \in {"school", "meal"} => calls = 1

\* C9 amended: a button run issues exactly one HTTP call, except a school
\* search run that finds the API key missing, which issues none; at most one
\* request is outstanding at any time, exactly one while a run waits and
\* none when the page is idle.
C9_AtMostOneCallPerPress ==
  /\ Len(outstanding) <= 1
  /\ pc = "idle" => outstanding = << >>
  /\ pc # "idle" => Len(outstanding) = 1
  /\ button = "meal" => calls = 1
  /\ button = "school" => calls = (IF environ = NoneVal \/ environ = "" THEN 0 ELSE 1)
  /\ button = "none" => calls = 0

C9_Witness ==
  /\ pc = "meal_wait"
  /\ button = "meal"
  /\ calls = 1
  /\ Len(outstanding) = 1

\* C10: the stored school collection is absent or non-empty; once stored it
\* is never removed or emptied, so the meal section stays reachable; and the
\* run of a meal lookup leaves it unchanged.
C10_StoredCollectionStays ==
  /\ [](Has(session_state, "schools_df") => Get(session_state, "schools_df") # << >>)
  /\ [][ Has(session_state, "schools_df")
           => Has(session_state', "schools_df") ]_vars
  /\ [][ MealSectionReachable(session_state)
           => MealSectionReachable(session_state') ]_vars
  /\ [][ (pc = "meal_wait" \/ pc' = "meal_wait")
           => session_state' = session_state ]_vars

C10_Witness ==
  /\ pc = "idle"
  /\ button = "meal"
  /\ response.kind = "ok"
  /\ "meal_found" \in shown
  /\ MealSectionReachable(session_state)
  /\ stored_count >= 2

=============================================================================
